---- MODULE Spec2Model ----
(***************************************************************************)
(* Hall booking backend: conflict detection, price computation and the     *)
(* booking lifecycle of app/api/routes/bookings.py, with the hall          *)
(* mutations of app/api/routes/halls.py.                                   *)
(*                                                                         *)
(* Units.  A date is a day number; day 0 is Friday 2025-05-30, so that     *)
(* day 2 is 2025-06-01.  A time of day is a number of minutes since        *)
(* 00:00 (0..1439).  Money is an integer number of thousandths of the      *)
(* currency unit ("mils"), which keeps a third decimal so that the final   *)
(* round(x, 2) of the price is a real step.  weekend_price_multiplier is   *)
(* kept in tenths (15 is 1.5).  Times are multiples of 15 minutes and      *)
(* rates are whole currency units, so every float the code computes is a   *)
(* multiple of 1/8 and exact in binary floating point.                     *)
(***************************************************************************)
EXTENDS Integers, Sequences, FiniteSets, TLC

VARIABLES
  halls,      \* table halls: hall id -> row
  bookings,   \* table bookings: sequence of rows, the id is the index
  today,      \* date.today()
  inflight    \* per worker: the row a create_booking request has built, between
              \* its conflict check and its db.commit()

vars == <<halls, bookings, today, inflight>>

\* ------------------------------------------------------------------ bounds

MaxBookings == 2
MaxToday == 1
WideMaxDate == 3

\* ------------------------------------------------------------- value sets

\* Python's None in a nullable column
NONE == "None"

UserIds == {1, 2}
AdminIds == {1, 2}
HallIds == {1, 2}
\* hall ids a request may name; 3 is the id of no row
ReqHallIds == HallIds \cup {3}
Principals == [role : {"user"}, id : UserIds] \cup [role : {"admin"}, id : AdminIds]

BookingStatus == {"booked", "cancelled", "completed", "no_show"}
PaymentStatus == {"pending", "success", "failed", "refunded"}
PaymentMode == {"online", "venue"}

\* datetime.date.weekday(): Monday is 0, Sunday is 6; day 0 is a Friday.
weekday(d) == (d + 4) % 7

Hour(h) == 60 * h

\* ---------------------------------------------------------------- halls

RateCard(pph, ppd, mult, dep) ==
  [price_per_hour |-> pph, price_per_day |-> ppd,
   weekend_price_multiplier |-> mult, security_deposit |-> dep]

\* price_per_hour=100, price_per_day=2000, multiplier=1.5, deposit=50
StdCard == RateCard(100000, 2000000, 15, 50000)
AltCard == RateCard(101000, 1500000, 20, 0)

HallRow(admin, card, del) ==
  [admin_id |-> admin,
   price_per_hour |-> card.price_per_hour,
   price_per_day |-> card.price_per_day,
   weekend_price_multiplier |-> card.weekend_price_multiplier,
   security_deposit |-> card.security_deposit,
   deleted |-> del]

\* ------------------------------------------------------------- has_conflict

\* ConflictRow with the date pre-filter made strict (< for <=, > for >=)
ConflictRowStrictDates(b, hall_id, start_date, end_date, start_time, end_time) ==
  /\ b.hall_id = hall_id
  /\ b.status = "booked"
  /\ b.start_date < end_date
  /\ b.end_date > start_date
  /\ \/ b.start_date # b.end_date
     \/ start_date # end_date
     \/ /\ b.start_date = b.end_date
        /\ start_date = end_date
        /\ b.start_time < end_time
        /\ b.end_time > start_time

\* ConflictRow with the time comparisons made inclusive (<= for <, >= for >)
ConflictRowInclusive(b, hall_id, start_date, end_date, start_time, end_time) ==
  /\ b.hall_id = hall_id
  /\ b.status = "booked"
  /\ b.start_date <= end_date
  /\ b.end_date >= start_date
  /\ \/ b.start_date # b.end_date
     \/ start_date # end_date
     \/ /\ b.start_date = b.end_date
        /\ start_date = end_date
        /\ b.start_time <= end_time
        /\ b.end_time >= start_time

\* ConflictRow without the filter Booking.status == "booked"
ConflictRowAnyStatus(b, hall_id, start_date, end_date, start_time, end_time) ==
  /\ b.hall_id = hall_id
  /\ b.start_date <= end_date
  /\ b.end_date >= start_date
  /\ \/ b.start_date # b.end_date
     \/ start_date # end_date
     \/ /\ b.start_date = b.end_date
        /\ start_date = end_date
        /\ b.start_time < end_time
        /\ b.end_time > start_time

\* The row filter of the query in has_conflict.
ConflictRow(b, hall_id, start_date, end_date, start_time, end_time) ==
  /\ b.hall_id = hall_id
  /\ b.status = "booked"
  /\ b.start_date <= end_date
  /\ b.end_date >= start_date
  /\ \/ b.start_date # b.end_date
     \/ start_date # end_date
     \/ /\ b.start_date = b.end_date
        /\ start_date = end_date
        /\ b.start_time < end_time
        /\ b.end_time > start_time

has_conflict(db, hall_id, start_date, end_date, start_time, end_time) ==
  \E i \in 1..Len(db) :
    ConflictRow(db[i], hall_id, start_date, end_date, start_time, end_time)

\* ----------------------------------------------------------- calculate_price

\* round(x, 2) on a float that is exact: to the nearest hundredth, ties to even.
Round2(x) ==
  LET q == x \div 10
      r == x % 10
  IN  IF r < 5 THEN 10 * q
      ELSE IF r > 5 THEN 10 * (q + 1)
      ELSE IF q % 2 = 0 THEN 10 * q ELSE 10 * (q + 1)

\* t.hour + t.minute / 60, in quarters of an hour
Quarters(t) == t \div 15

\* hours * price_per_hour, hours given in quarters
HoursCharge(quarters, price_per_hour) == (quarters * price_per_hour) \div 4

\* total *= hall.weekend_price_multiplier, the multiplier left out
TimesMultiplierNone(total, mult) == total

\* total *= hall.weekend_price_multiplier
TimesMultiplier(total, mult) == (total * mult) \div 10

RECURSIVE FullDaysCharge(_, _, _, _)
\* the loop over range(full_days): the days start_date+1 .. start_date+full_days
FullDaysCharge(hall, start_date, i, full_days) ==
  IF i >= full_days THEN 0
  ELSE LET rate == IF weekday(start_date + i + 1) >= 5
                   THEN TimesMultiplier(hall.price_per_day, hall.weekend_price_multiplier)
                   ELSE hall.price_per_day
       IN  rate + FullDaysCharge(hall, start_date, i + 1, full_days)

\* What a call of calculate_price ends with: the HTTPException of hours <= 0
\* (raised, value 0) or the returned amount.
Raised == [raised |-> TRUE, value |-> 0]
Returned(x) == [raised |-> FALSE, value |-> x]

calculate_price(hall, start_date, end_date, start_time, end_time) ==
  IF start_date = end_date
  THEN LET hours == Quarters(end_time) - Quarters(start_time)
           total == HoursCharge(hours, hall.price_per_hour)
       IN  IF hours <= 0 THEN Raised
           ELSE Returned(Round2((IF weekday(start_date) >= 5
                                 THEN TimesMultiplier(total, hall.weekend_price_multiplier)
                                 ELSE total) + hall.security_deposit))
  ELSE LET start_hours == 96 - Quarters(start_time)
           full_days == (end_date - start_date) - 1
           end_hours == Quarters(end_time)
           total == HoursCharge(start_hours, hall.price_per_hour)
                    + FullDaysCharge(hall, start_date, 0, full_days)
                    + HoursCharge(end_hours, hall.price_per_hour)
       IN  Returned(Round2((IF weekday(end_date) >= 5
                            THEN TimesMultiplier(total, hall.weekend_price_multiplier)
                            ELSE total) + hall.security_deposit))

\* ------------------------------------------------------------ responses

\* The detail of the HTTPException a handler raises, or OK for a 200.
OK == "ok"
Conflict == "Hall already booked for this time range"
HallNotFound == "Hall not found"
BookingNotFound == "Booking not found"
OnlyUsers == "Only users can book halls"
PastDate == "Cannot book past dates"
EndBeforeStart == "End date cannot be before start date"
EndInPast == "End date cannot be in the past"
StartNotFuture == "Start time must be in the future"
EndNotAfterStart == "End time must be after start time"
InvalidDuration == "Invalid booking duration"
InvalidSignature == "Invalid payment signature"
AlreadyVerified == "Payment already verified"
AdminsOnly == "Admins only"
NotOwner == "You do not own this hall"
OrderFailed == "order.create raised"

\* ------------------------------------------------------------ create_booking

\* db.query(Hall).filter(Hall.id == hall_id, Hall.deleted == False).first()
LiveHall(hs, hall_id) == hall_id \in DOMAIN hs /\ ~hs[hall_id].deleted

\* create_check without the check of start_date < date.today()
create_check_any_start(hs, db, day, p, hall_id, start_date, end_date, start_time, end_time, nowt) ==
  IF p.role # "user" THEN OnlyUsers
  ELSE IF ~LiveHall(hs, hall_id) THEN HallNotFound
  ELSE IF end_date < start_date THEN EndBeforeStart
  ELSE IF end_date < day THEN EndInPast
  ELSE IF start_date = day /\ start_time <= nowt THEN StartNotFuture
  ELSE IF start_date = end_date /\ end_time <= start_time THEN EndNotAfterStart
  ELSE IF has_conflict(db, hall_id, start_date, end_date, start_time, end_time) THEN Conflict
  ELSE IF calculate_price(hs[hall_id], start_date, end_date, start_time, end_time).raised
       THEN InvalidDuration
  ELSE OK

\* The checks of create_booking up to and including the price, in the code's
\* order: the detail of the first HTTPException raised, or OK.
create_check(hs, db, day, p, hall_id, start_date, end_date, start_time, end_time, nowt) ==
  IF p.role # "user" THEN OnlyUsers
  ELSE IF ~LiveHall(hs, hall_id) THEN HallNotFound
  ELSE IF start_date < day THEN PastDate
  ELSE IF end_date < start_date THEN EndBeforeStart
  ELSE IF end_date < day THEN EndInPast
  ELSE IF start_date = day /\ start_time <= nowt THEN StartNotFuture
  ELSE IF start_date = end_date /\ end_time <= start_time THEN EndNotAfterStart
  ELSE IF has_conflict(db, hall_id, start_date, end_date, start_time, end_time) THEN Conflict
  ELSE IF calculate_price(hs[hall_id], start_date, end_date, start_time, end_time).raised
       THEN InvalidDuration
  ELSE OK

\* Booking(...) as create_booking builds it; nullable columns start as None.
NewBooking(user_id, hall_id, start_date, end_date, start_time, end_time, total_price, mode) ==
  [user_id |-> user_id, hall_id |-> hall_id,
   start_date |-> start_date, end_date |-> end_date,
   start_time |-> start_time, end_time |-> end_time,
   status |-> "booked", total_price |-> total_price,
   payment_mode |-> mode, payment_status |-> "pending",
   razorpay_order_id |-> NONE, razorpay_payment_id |-> NONE,
   razorpay_signature |-> NONE]

\* rp_order["id"] of the order created with receipt booking_<id>
OrderId(id) == "order_" \o ToString(id)

\* db.add(booking); db.commit(); then, for an online booking, the order and
\* the second commit: rp_ok is whether razorpay_client.order.create returned.
InsertBooking(db, row, rp_ok) ==
  IF row.payment_mode = "online" /\ rp_ok
  THEN Append(db, [row EXCEPT !.razorpay_order_id = OrderId(Len(db) + 1)])
  ELSE Append(db, row)

\* What the caller of create_booking gets.
create_response(detail, mode, rp_ok) ==
  IF detail = OK /\ mode = "online" /\ ~rp_ok THEN OrderFailed ELSE detail

\* the bookings table after create_booking: the new row added iff no check raised
create_update(hs, db, day, p, hall_id, start_date, end_date, start_time, end_time, mode, nowt, rp_ok) ==
  LET detail == create_check(hs, db, day, p, hall_id,
                             start_date, end_date, start_time, end_time, nowt)
      row == NewBooking(p.id, hall_id, start_date, end_date, start_time, end_time,
                        calculate_price(hs[hall_id], start_date, end_date,
                                        start_time, end_time).value, mode)
  IN  IF detail = OK THEN InsertBooking(db, row, rp_ok) ELSE db

\* The whole handler, one request at a time.
create_booking(p, hall_id, start_date, end_date, start_time, end_time, mode, nowt, rp_ok) ==
  /\ bookings' = create_update(halls, bookings, today, p, hall_id,
                               start_date, end_date, start_time, end_time,
                               mode, nowt, rp_ok)
  /\ UNCHANGED <<halls, today, inflight>>

\* ------------------------------------------------------------ cancel_booking

\* db.query(Booking).filter(Booking.id == booking_id, Booking.user_id == user.id)
cancel_check(db, p, booking_id) ==
  IF booking_id \in 1..Len(db) /\ db[booking_id].user_id = p.id
  THEN OK ELSE BookingNotFound

\* cancel_update that also takes the payment back to pending
cancel_update_resets(db, p, booking_id) ==
  IF cancel_check(db, p, booking_id) = OK
  THEN [db EXCEPT ![booking_id].status = "cancelled",
                  ![booking_id].payment_status = "pending"]
  ELSE db

\* the bookings table after cancel_booking
cancel_update(db, p, booking_id) ==
  IF cancel_check(db, p, booking_id) = OK
  THEN [db EXCEPT ![booking_id].status = "cancelled"]
  ELSE db

cancel_booking(p, booking_id) ==
  /\ bookings' = cancel_update(bookings, p, booking_id)
  /\ UNCHANGED <<halls, today, inflight>>

\* ------------------------------------------------------------ verify_payment

\* The signature the payment processor issues for (order, payment):
\* HMAC(order_id | payment_id) under the account's secret.
Sign(order_id, payment_id) == "sig(" \o order_id \o "|" \o payment_id \o ")"

\* razorpay_client.utility.verify_payment_signature does not raise
SignatureValid(order_id, payment_id, signature) == signature = Sign(order_id, payment_id)

\* verify_check without the check of payment_status == "success"
verify_check_always(db, booking_id, razorpay_payment_id, razorpay_order_id, razorpay_signature) ==
  IF booking_id \notin 1..Len(db) THEN BookingNotFound
  ELSE IF ~SignatureValid(razorpay_order_id, razorpay_payment_id, razorpay_signature)
       THEN InvalidSignature
  ELSE OK

verify_check(db, booking_id, razorpay_payment_id, razorpay_order_id, razorpay_signature) ==
  IF booking_id \notin 1..Len(db) THEN BookingNotFound
  ELSE IF db[booking_id].payment_status = "success" THEN AlreadyVerified
  ELSE IF ~SignatureValid(razorpay_order_id, razorpay_payment_id, razorpay_signature)
       THEN InvalidSignature
  ELSE OK

\* verify_update that raises InvalidSignature without writing "failed"
verify_update_unsaved(db, booking_id, razorpay_payment_id, razorpay_order_id, razorpay_signature) ==
  IF verify_check(db, booking_id, razorpay_payment_id,
                  razorpay_order_id, razorpay_signature) = OK
  THEN [db EXCEPT
          ![booking_id].payment_status = "success",
          ![booking_id].razorpay_payment_id = razorpay_payment_id,
          ![booking_id].razorpay_signature = razorpay_signature]
  ELSE db

\* verify_update that also sets status back to "booked" on success
verify_update_rebooks(db, booking_id, razorpay_payment_id, razorpay_order_id, razorpay_signature) ==
  LET detail == verify_check(db, booking_id, razorpay_payment_id,
                             razorpay_order_id, razorpay_signature)
  IN  IF detail = InvalidSignature
      THEN [db EXCEPT ![booking_id].payment_status = "failed"]
      ELSE IF detail = OK
      THEN [db EXCEPT
              ![booking_id].status = "booked",
              ![booking_id].payment_status = "success",
              ![booking_id].razorpay_payment_id = razorpay_payment_id,
              ![booking_id].razorpay_signature = razorpay_signature]
      ELSE db

\* verify_update that stores the ids of the call also when already verified
verify_update_overwrites(db, booking_id, razorpay_payment_id, razorpay_order_id, razorpay_signature) ==
  LET detail == verify_check(db, booking_id, razorpay_payment_id,
                             razorpay_order_id, razorpay_signature)
  IN  IF detail = InvalidSignature
      THEN [db EXCEPT ![booking_id].payment_status = "failed"]
      ELSE IF detail \in {OK, AlreadyVerified}
      THEN [db EXCEPT
              ![booking_id].payment_status = "success",
              ![booking_id].razorpay_payment_id = razorpay_payment_id,
              ![booking_id].razorpay_signature = razorpay_signature]
      ELSE db

\* the bookings table after the commits of verify_payment
verify_update(db, booking_id, razorpay_payment_id, razorpay_order_id, razorpay_signature) ==
  LET detail == verify_check(db, booking_id, razorpay_payment_id,
                             razorpay_order_id, razorpay_signature)
  IN  IF detail = InvalidSignature
      THEN [db EXCEPT ![booking_id].payment_status = "failed"]
      ELSE IF detail = OK
      THEN [db EXCEPT
              ![booking_id].payment_status = "success",
              ![booking_id].razorpay_payment_id = razorpay_payment_id,
              ![booking_id].razorpay_signature = razorpay_signature]
      ELSE db

verify_payment(booking_id, razorpay_payment_id, razorpay_order_id, razorpay_signature) ==
  /\ bookings' = verify_update(bookings, booking_id, razorpay_payment_id,
                               razorpay_order_id, razorpay_signature)
  /\ UNCHANGED <<halls, today, inflight>>

\* ------------------------------------------------------- edit_hall, delete_hall

\* require_admin, then the hall lookup and the ownership check, as edit_hall
\* and delete_hall both do them: the detail of the HTTPException, or OK.
\* hall_check without the ownership check
hall_check_any_admin(hs, p, hall_id) ==
  IF p.role # "admin" THEN AdminsOnly
  ELSE IF ~LiveHall(hs, hall_id) THEN HallNotFound
  ELSE OK

hall_check(hs, p, hall_id) ==
  IF p.role # "admin" THEN AdminsOnly
  ELSE IF ~LiveHall(hs, hall_id) THEN HallNotFound
  ELSE IF hs[hall_id].admin_id # p.id THEN NotOwner
  ELSE OK

\* edit_hall that also prices the hall's bookings again under the new card
edit_hall_reprice(p, hall_id, data) ==
  LET ok == hall_check(halls, p, hall_id) = OK
      card == [halls EXCEPT
                 ![hall_id].price_per_hour = data.price_per_hour,
                 ![hall_id].price_per_day = data.price_per_day,
                 ![hall_id].weekend_price_multiplier = data.weekend_price_multiplier,
                 ![hall_id].security_deposit = data.security_deposit]
  IN  /\ halls' = IF ok THEN card ELSE halls
      /\ bookings' = IF ok
                     THEN [i \in 1..Len(bookings) |->
                             IF bookings[i].hall_id = hall_id
                             THEN [bookings[i] EXCEPT !.total_price =
                                     calculate_price(card[hall_id],
                                                     bookings[i].start_date,
                                                     bookings[i].end_date,
                                                     bookings[i].start_time,
                                                     bookings[i].end_time).value]
                             ELSE bookings[i]]
                     ELSE bookings
      /\ UNCHANGED <<today, inflight>>

\* the halls table after edit_hall
edit_update(hs, p, hall_id, data) ==
  IF hall_check(hs, p, hall_id) = OK
  THEN [hs EXCEPT
          ![hall_id].price_per_hour = data.price_per_hour,
          ![hall_id].price_per_day = data.price_per_day,
          ![hall_id].weekend_price_multiplier = data.weekend_price_multiplier,
          ![hall_id].security_deposit = data.security_deposit]
  ELSE hs

edit_hall(p, hall_id, data) ==
  /\ halls' = edit_update(halls, p, hall_id, data)
  /\ UNCHANGED <<bookings, today, inflight>>

\* the halls table after delete_hall
delete_update(hs, p, hall_id) ==
  IF hall_check(hs, p, hall_id) = OK
  THEN [hs EXCEPT ![hall_id].deleted = TRUE]
  ELSE hs

delete_hall(p, hall_id) ==
  /\ halls' = delete_update(halls, p, hall_id)
  /\ UNCHANGED <<bookings, today, inflight>>

\* ------------------------------------------------------ the availability views

\* Python's max and min, on dates and on "HH:MM" strings of equal length
max(a, b) == IF a >= b THEN a ELSE b
min(a, b) == IF a <= b THEN a ELSE b

\* The months a request can name, and date(year, month_num, 1) and the last
\* day of the month as day numbers (2025-05-30 is day 0).
Months == {"2025-05", "2025-06"}
month_start(month) == IF month = "2025-05" THEN 0 - 29 ELSE 2
month_end(month) == IF month = "2025-05" THEN 1 ELSE 31

\* d.isoformat(): <<year, month, day>> of a day number of May or June 2025
isoformat(d) == IF d <= 1 THEN <<2025, 5, d + 30>> ELSE <<2025, 6, d - 1>>

\* RowsTouching without the filter Booking.status == "booked"
RowsTouchingAnyStatus(db, hall_id, first, last) ==
  {i \in 1..Len(db) : /\ db[i].hall_id = hall_id
                      /\ db[i].start_date <= last
                      /\ db[i].end_date >= first}

\* the bookings a view reads: booked, of the hall, touching [first, last]
RowsTouching(db, hall_id, first, last) ==
  {i \in 1..Len(db) : /\ db[i].hall_id = hall_id
                      /\ db[i].status = "booked"
                      /\ db[i].start_date <= last
                      /\ db[i].end_date >= first}

\* the while loop: the days of b clipped to the month
ClippedDays(b, first, last) == max(b.start_date, first)..min(b.end_date, last)

\* available_dates marking only the first day of each booking
available_dates_first_day(db, hall_id, month) ==
  LET first == month_start(month)
      last == month_end(month)
      booked == {max(db[i].start_date, first) : i \in RowsTouching(db, hall_id, first, last)}
  IN  {isoformat(d) : d \in (first..last) \ booked}

\* the "available_dates" list of the response, as the set of its entries
available_dates(db, hall_id, month) ==
  LET first == month_start(month)
      last == month_end(month)
      booked == UNION {ClippedDays(db[i], first, last) :
                         i \in RowsTouching(db, hall_id, first, last)}
  IN  {isoformat(d) : d \in (first..last) \ booked}

\* hall_map[b.hall_id] of a hall that is not a key of hall_map: the KeyError
\* leaves the handler (raised), else the "halls" list as hall_id -> booked_dates
CalendarRaised == [raised |-> TRUE, halls |-> <<>>]

multi_hall_calendar(hs, db, month) ==
  LET first == month_start(month)
      last == month_end(month)
      live == {h \in DOMAIN hs : ~hs[h].deleted}
      rows == {i \in 1..Len(db) : /\ db[i].status = "booked"
                                  /\ db[i].start_date <= last
                                  /\ db[i].end_date >= first}
  IN  IF \E i \in rows : db[i].hall_id \notin live THEN CalendarRaised
      ELSE [raised |-> FALSE,
            halls |-> [h \in live |->
                         {isoformat(d) :
                            d \in UNION {ClippedDays(db[i], first, last) :
                                           i \in {j \in rows : db[j].hall_id = h}}}]]

\* the halls that filter_by_availability returns, by id: not deleted and
\* without a booked booking whose date range contains target_date
filter_by_availability(hs, db, target_date) ==
  {h \in DOMAIN hs :
     /\ ~hs[h].deleted
     /\ ~\E i \in 1..Len(db) : /\ db[i].hall_id = h
                               /\ db[i].status = "booked"
                               /\ db[i].start_date <= target_date
                               /\ db[i].end_date >= target_date}

\* "HH:MM" strings are the numbers HHMM: their order is the strings' order.
\* t.strftime("%H:%M") of a time in minutes, and to_min of such a string
strftime(t) == (t \div 60) * 100 + (t % 60)
to_min(s) == (s \div 100) * 60 + (s % 100)
DayStart == strftime(0)
DayEnd == strftime(1439)

\* the tuple available_slots appends to blocked for booking b
BlockedWindow(b, target_date) ==
  IF b.start_date < target_date /\ target_date < b.end_date THEN <<DayStart, DayEnd>>
  ELSE IF target_date = b.start_date /\ b.start_date # b.end_date
       THEN <<strftime(b.start_time), DayEnd>>
  ELSE IF target_date = b.end_date /\ b.start_date # b.end_date
       THEN <<DayStart, strftime(b.end_time)>>
  ELSE <<strftime(b.start_time), strftime(b.end_time)>>

\* the order of blocked.sort() on tuples
TupleLe(x, y) == x[1] < y[1] \/ (x[1] = y[1] /\ x[2] <= y[2])

RECURSIVE SortedBlocked(_, _, _)
\* blocked after blocked.sort(): the windows of the rows in rows, ascending
SortedBlocked(db, rows, target_date) ==
  IF rows = {} THEN <<>>
  ELSE LET i == CHOOSE i \in rows :
                  \A j \in rows : TupleLe(BlockedWindow(db[i], target_date),
                                          BlockedWindow(db[j], target_date))
       IN  <<BlockedWindow(db[i], target_date)>>
             \o SortedBlocked(db, rows \ {i}, target_date)

RECURSIVE MergeBlocked(_, _, _, _)
\* the loop over blocked[1:], then merged.append((start, end))
MergeBlocked(blocked, k, start, end) ==
  IF k > Len(blocked) THEN <<<<start, end>>>>
  ELSE IF to_min(blocked[k][1]) <= to_min(end)
       THEN MergeBlocked(blocked, k + 1, start, max(end, blocked[k][2]))
       ELSE <<<<start, end>>>> \o MergeBlocked(blocked, k + 1, blocked[k][1], blocked[k][2])

Slot(start, end) == [start |-> start, end |-> end]

RECURSIVE GapsNoTail(_, _, _)
\* Gaps without the slot from last to "23:59"
GapsNoTail(merged, k, last) ==
  IF k > Len(merged) THEN <<>>
  ELSE (IF to_min(merged[k][1]) > to_min(last)
        THEN <<Slot(last, merged[k][1])>> ELSE <<>>)
       \o GapsNoTail(merged, k + 1, merged[k][2])

RECURSIVE Gaps(_, _, _)
\* the loop over merged, then the slot from last to "23:59"
Gaps(merged, k, last) ==
  IF k > Len(merged)
  THEN IF last # DayEnd THEN <<Slot(last, DayEnd)>> ELSE <<>>
  ELSE (IF to_min(merged[k][1]) > to_min(last)
        THEN <<Slot(last, merged[k][1])>> ELSE <<>>)
       \o Gaps(merged, k + 1, merged[k][2])

\* the "available_slots" list of the response
available_slots(db, hall_id, target_date) ==
  LET rows == RowsTouching(db, hall_id, target_date, target_date)
      blocked == SortedBlocked(db, rows, target_date)
  IN  IF rows = {} THEN <<Slot(DayStart, DayEnd)>>
      ELSE IF \E k \in 1..Len(blocked) : blocked[k] = <<DayStart, DayEnd>> THEN <<>>
      ELSE Gaps(MergeBlocked(blocked, 2, blocked[1][1], blocked[1][2]), 1, DayStart)

\* ---------------------------------------------------------------- the clock

\* midnight passes: date.today() moves on
Tick ==
  /\ today < MaxToday
  /\ today' = today + 1
  /\ UNCHANGED <<halls, bookings, inflight>>

\* ------------------------------------------------------------ request inputs

Workers == {1, 2}
Idle == [w \in Workers |-> <<>>]

User(id) == [role |-> "user", id |-> id]
Admin(id) == [role |-> "admin", id |-> id]

\* [start_date, end_date, start_time, end_time] of the requests of Spec: on
\* day 1 10:00-14:00, 14:00-16:00 and 10:00-16:00; day 0 16:00 to day 1 10:00;
\* a same-day span that ends before it starts; an end date before the start date
SysSpans == {<<1, 1, Hour(10), Hour(14)>>, <<1, 1, Hour(14), Hour(16)>>,
             <<1, 1, Hour(10), Hour(16)>>, <<0, 1, Hour(16), Hour(10)>>,
             <<1, 1, Hour(14), Hour(10)>>, <<1, 0, Hour(10), Hour(14)>>}
\* datetime.now().time() as the requests of these runs read it
Morning == Hour(9)

PayA == "pay_A"

\* ------------------------------------------- Spec: the booking routes, in turn

Init ==
  /\ halls = [h \in HallIds |-> HallRow(h, StdCard, FALSE)]
  /\ bookings = <<>>
  /\ today = 0
  /\ inflight = Idle

CreateBooking ==
  \E hall_id \in HallIds, sp \in SysSpans :
    /\ create_check(halls, bookings, today, User(1), hall_id, sp[1], sp[2], sp[3], sp[4],
                    Morning) = OK
         => Len(bookings) < MaxBookings
    /\ create_booking(User(1), hall_id, sp[1], sp[2], sp[3], sp[4], "venue", Morning, TRUE)

CancelBooking ==
  \E booking_id \in 1..MaxBookings : cancel_booking(User(1), booking_id)

VerifyPayment ==
  \E booking_id \in 1..MaxBookings, sig \in {Sign(OrderId(1), PayA), "forged"} :
    verify_payment(booking_id, PayA, OrderId(1), sig)

Next ==
  \/ CreateBooking
  \/ CancelBooking
  \/ VerifyPayment
  \/ Tick

Spec == Init /\ [][Next]_vars

\* ------------------------- SpecLife: bookings and the halls they are made on

\* [start_date, end_date, start_time, end_time] of the requests of SpecLife:
\* a same-day span, a two-day span, and a same-day span that ends before it starts
LifeSpans == {<<1, 1, Hour(10), Hour(14)>>, <<0, 1, Hour(14), Hour(10)>>,
              <<1, 1, Hour(14), Hour(10)>>}
LifeHallIds == {1, 3}

LifeCreate ==
  \E p \in {User(1), Admin(1)}, hall_id \in LifeHallIds, sp \in LifeSpans,
     mode \in PaymentMode :
    /\ create_check(halls, bookings, today, p, hall_id, sp[1], sp[2], sp[3], sp[4],
                    Morning) = OK
         => Len(bookings) < MaxBookings
    /\ create_booking(p, hall_id, sp[1], sp[2], sp[3], sp[4], mode, Morning, TRUE)

LifeCancel ==
  \E p \in {User(1), User(2), Admin(1)}, booking_id \in 1..MaxBookings :
    cancel_booking(p, booking_id)

LifeVerify ==
  \E booking_id \in 1..MaxBookings, sig \in {Sign(OrderId(1), PayA), "forged"} :
    verify_payment(booking_id, PayA, OrderId(1), sig)

EditHall ==
  \E p \in {Admin(1), Admin(2)}, hall_id \in LifeHallIds, data \in {StdCard, AltCard} :
    edit_hall(p, hall_id, data)

DeleteHall ==
  \E p \in {Admin(1), Admin(2)}, hall_id \in LifeHallIds : delete_hall(p, hall_id)

NextLife ==
  \/ LifeCreate
  \/ LifeCancel
  \/ LifeVerify
  \/ EditHall
  \/ DeleteHall

SpecLife == Init /\ [][NextLife]_vars

\* ------------- SpecWide: one hall, every span of a few days and times of day

ConflictMaxDate == 1
WideDates == 0..ConflictMaxDate
WideTimes == {Hour(10), Hour(13), Hour(14), Hour(15), Hour(16)}
WideSpans == WideDates \X WideDates \X WideTimes \X WideTimes

\* a first booking, then a second one against it
WideCreate ==
  \E sp \in WideSpans :
    /\ create_check(halls, bookings, today, User(1), 1, sp[1], sp[2], sp[3], sp[4],
                    Morning) = OK
         => Len(bookings) < MaxBookings
    /\ create_booking(User(1), 1, sp[1], sp[2], sp[3], sp[4], "venue", Morning, TRUE)

NextWide == WideCreate

SpecWide == Init /\ [][NextWide]_vars

\* ------------- SpecConc: two workers, each request a read and then a commit

\* create_booking up to the price: the checks read the committed table, and a
\* request that passes them holds the row it is about to add.
conc_check(w, p, hall_id, start_date, end_date, start_time, end_time, mode, nowt) ==
  LET detail == create_check(halls, bookings, today, p, hall_id,
                             start_date, end_date, start_time, end_time, nowt)
      row == NewBooking(p.id, hall_id, start_date, end_date, start_time, end_time,
                        calculate_price(halls[hall_id], start_date, end_date,
                                        start_time, end_time).value, mode)
  IN  /\ inflight[w] = <<>>
      /\ inflight' = IF detail = OK THEN [inflight EXCEPT ![w] = <<row>>] ELSE inflight
      /\ UNCHANGED <<halls, bookings, today>>

\* db.add(booking); db.commit() and what follows it
conc_commit(w, rp_ok) ==
  /\ inflight[w] # <<>>
  /\ bookings' = InsertBooking(bookings, inflight[w][1], rp_ok)
  /\ inflight' = [inflight EXCEPT ![w] = <<>>]
  /\ UNCHANGED <<halls, today>>

InFlight == Cardinality({w \in Workers : inflight[w] # <<>>})

ConcCheck ==
  \E w \in Workers, hall_id \in HallIds, sp \in SysSpans :
    /\ Len(bookings) + InFlight < MaxBookings
    /\ conc_check(w, User(w), hall_id, sp[1], sp[2], sp[3], sp[4], "venue", Morning)

ConcCommit ==
  \E w \in Workers : conc_commit(w, TRUE)

NextConc ==
  \/ ConcCheck
  \/ ConcCommit

SpecConc == Init /\ [][NextConc]_vars

\* ------------- SpecPrice: one booking priced under each rate card

TieCard == RateCard(101000, 2000000, 15, 0)
PriceCards == {StdCard, AltCard, TieCard}
PriceDates == 0..WideMaxDate
PriceTimes == {Hour(10), Hour(10) + 15, Hour(14), Hour(23)}
PriceSpans == PriceDates \X PriceDates \X PriceTimes \X PriceTimes

InitPrice ==
  /\ \E card \in PriceCards : halls = [h \in HallIds |-> HallRow(1, card, FALSE)]
  /\ bookings = <<>>
  /\ today = 0
  /\ inflight = Idle

PriceCreate ==
  \E sp \in PriceSpans :
    /\ bookings = <<>>
    /\ create_booking(User(1), 1, sp[1], sp[2], sp[3], sp[4], "venue", Morning, TRUE)

NextPrice == PriceCreate

SpecPrice == InitPrice /\ [][NextPrice]_vars

\* ------------- SpecCal: bookings of May and June 2025 under the calendar views

CalSpans == {<<1, 1, Hour(10), Hour(14)>>, <<1, 2, Hour(14), Hour(10)>>,
             <<2, 4, Hour(10), Hour(8)>>, <<3, 3, Hour(10), Hour(14)>>}
CalTimes == {Hour(0), Hour(8), Hour(10), Hour(12), Hour(14), Hour(23)}

CalCreate ==
  \E hall_id \in HallIds, sp \in CalSpans :
    /\ create_check(halls, bookings, today, User(1), hall_id, sp[1], sp[2], sp[3], sp[4],
                    Morning) = OK
         => Len(bookings) < MaxBookings
    /\ create_booking(User(1), hall_id, sp[1], sp[2], sp[3], sp[4], "venue", Morning, TRUE)

CalCancel ==
  \E booking_id \in 1..MaxBookings : cancel_booking(User(1), booking_id)

CalDelete ==
  \E p \in {Admin(1), Admin(2)}, hall_id \in HallIds : delete_hall(p, hall_id)

NextCal ==
  \/ CalCreate
  \/ CalCancel
  \/ CalDelete

SpecCal == Init /\ [][NextCal]_vars

\* ------------- SpecPay: payment callbacks with any ids and signatures

PayB == "pay_B"
PayIds == {PayA, PayB}
PayOrders == {OrderId(1), OrderId(2)}
PaySignatures == {Sign(OrderId(1), PayA), Sign(OrderId(2), PayB), "forged"}
PaySpans == {<<1, 1, Hour(10), Hour(14)>>, <<1, 1, Hour(14), Hour(16)>>}

PayCreate ==
  \E sp \in PaySpans, mode \in PaymentMode, rp_ok \in BOOLEAN :
    /\ create_check(halls, bookings, today, User(1), 1, sp[1], sp[2], sp[3], sp[4],
                    Morning) = OK
         => Len(bookings) < MaxBookings
    /\ create_booking(User(1), 1, sp[1], sp[2], sp[3], sp[4], mode, Morning, rp_ok)

PayVerify ==
  \E booking_id \in 1..MaxBookings, razorpay_payment_id \in PayIds,
     razorpay_order_id \in PayOrders, razorpay_signature \in PaySignatures :
    verify_payment(booking_id, razorpay_payment_id, razorpay_order_id, razorpay_signature)

PayCancel ==
  \E booking_id \in 1..MaxBookings : cancel_booking(User(1), booking_id)

NextPay ==
  \/ PayCreate
  \/ PayVerify
  \/ PayCancel

SpecPay == Init /\ [][NextPay]_vars

\* ------------- SpecSlots: racing requests, so that stored windows may overlap

LastMinute == Hour(23) + 59
SlotTimes == {Hour(0), Hour(10), Hour(14), Hour(16), LastMinute}
SlotSpans ==
  {<<1, 1, st, et>> : st \in SlotTimes, et \in SlotTimes}
  \cup {<<0, 1, Hour(16), Hour(10)>>, <<1, 2, Hour(14), Hour(10)>>,
        <<0, 2, Hour(10), Hour(10)>>, <<1, 2, Hour(0), Hour(10)>>}

SlotCheck ==
  \E w \in Workers, sp \in SlotSpans :
    /\ Len(bookings) + InFlight < MaxBookings
    /\ conc_check(w, User(w), 1, sp[1], sp[2], sp[3], sp[4], "venue", Morning)

SlotCommit ==
  \E w \in Workers : conc_commit(w, TRUE)

SlotCancel ==
  \E booking_id \in 1..MaxBookings : cancel_booking(User(1), booking_id)

NextSlots ==
  \/ SlotCheck
  \/ SlotCommit
  \/ SlotCancel

SpecSlots == Init /\ [][NextSlots]_vars

\* ------------- SpecHalls: hall administration next to paid bookings

HallsSpan == <<1, 1, Hour(10), Hour(14)>>
HallsCards == {StdCard, AltCard}

HallsCreate ==
  \E hall_id \in HallIds :
    /\ create_check(halls, bookings, today, User(1), hall_id, HallsSpan[1], HallsSpan[2],
                    HallsSpan[3], HallsSpan[4], Morning) = OK
         => Len(bookings) < MaxBookings
    /\ create_booking(User(1), hall_id, HallsSpan[1], HallsSpan[2], HallsSpan[3],
                      HallsSpan[4], "online", Morning, TRUE)

HallsSignatures == {Sign(OrderId(1), PayA), "forged"}

HallsVerify ==
  \E booking_id \in 1..MaxBookings, razorpay_signature \in HallsSignatures :
    verify_payment(booking_id, PayA, OrderId(1), razorpay_signature)

HallsCancel ==
  \E booking_id \in 1..MaxBookings : cancel_booking(User(1), booking_id)

HallsEdit ==
  \E p \in Principals, hall_id \in HallIds, data \in HallsCards :
    edit_hall(p, hall_id, data)

HallsDelete ==
  \E p \in Principals, hall_id \in HallIds : delete_hall(p, hall_id)

NextHalls ==
  \/ HallsCreate
  \/ HallsVerify
  \/ HallsCancel
  \/ HallsEdit
  \/ HallsDelete

SpecHalls == Init /\ [][NextHalls]_vars

\* ======================================================================
\* The occupation rule of the specification, against which the claims are
\* stated: on day d a span occupies the minutes [WindowLo, WindowHi).
\* ======================================================================

Max2(a, b) == IF a >= b THEN a ELSE b
Min2(a, b) == IF a <= b THEN a ELSE b

SpanOf(b) == <<b.start_date, b.end_date, b.start_time, b.end_time>>

WindowLo(sp, d) == IF d = sp[1] THEN sp[3] ELSE 0
WindowHi(sp, d) == IF d = sp[2] THEN sp[4] ELSE 1440

\* the two spans share an occupied date-time
SpansOverlap(a, b) ==
  \E d \in Max2(a[1], b[1])..Min2(a[2], b[2]) :
    Max2(WindowLo(a, d), WindowLo(b, d)) < Min2(WindowHi(a, d), WindowHi(b, d))

Booked(db, hall_id) == {i \in 1..Len(db) : db[i].status = "booked" /\ db[i].hall_id = hall_id}

\* the request passes every check of create_booking other than the conflict check
OtherwiseValid(hall_id, sp) ==
  create_check(halls, <<>>, today, User(1), hall_id, sp[1], sp[2], sp[3], sp[4], Morning) = OK

\* the detail create_booking answers this request with, in this state
Answer(hall_id, sp) ==
  create_check(halls, bookings, today, User(1), hall_id, sp[1], sp[2], sp[3], sp[4], Morning)

\* ---------------------------------------------------------------------
\* C1: with requests handled one at a time, no two bookings with status
\* booked on the same hall share an occupied date-time, and a request whose
\* span overlaps a booked booking of its hall is answered Conflict (when no
\* earlier check rejects it); a refused request inserts nothing, so the
\* first conjunct is what "adds no booking" preserves.
\* ---------------------------------------------------------------------
C1_NoDoubleBooking ==
  /\ \A h \in HallIds : \A i \in Booked(bookings, h), j \in Booked(bookings, h) :
        i # j => ~SpansOverlap(SpanOf(bookings[i]), SpanOf(bookings[j]))
  /\ \A h \in HallIds, sp \in SysSpans :
        (OtherwiseValid(h, sp)
           /\ \E i \in Booked(bookings, h) : SpansOverlap(SpanOf(bookings[i]), sp))
        => Answer(h, sp) = Conflict

\* two booked bookings share a hall and a date, and a third request that
\* overlaps one of them is being refused
C1_Witness ==
  /\ \E i \in Booked(bookings, 1), j \in Booked(bookings, 1) :
        /\ i # j
        /\ bookings[i].start_date = bookings[j].start_date
        /\ bookings[i].end_date = bookings[j].start_date
  /\ \E sp \in SysSpans :
        /\ OtherwiseValid(1, sp)
        /\ \E i \in Booked(bookings, 1) : SpansOverlap(SpanOf(bookings[i]), sp)
        /\ Answer(1, sp) = Conflict

\* ---------------------------------------------------------------------
\* C3: a request that passes the other checks and whose span shares no
\* occupied date-time with any booked booking of the hall is not answered
\* Conflict.
\* ---------------------------------------------------------------------
C3_NoFalseConflict ==
  \A sp \in WideSpans :
    (OtherwiseValid(1, sp)
       /\ \A i \in Booked(bookings, 1) : ~SpansOverlap(SpanOf(bookings[i]), sp))
    => Answer(1, sp) # Conflict

\* ---------------------------------------------------------------------
\* C4: for a same-day candidate on a date where every booked booking of the
\* hall is a same-day booking, has_conflict is true iff some such booking has
\* start_time < candidate.end_time and end_time > candidate.start_time; with
\* 10:00-14:00 booked alone on a day, 14:00-16:00 is accepted and 13:00-15:00
\* is answered Conflict.
\* ---------------------------------------------------------------------
SameDayOn(b, d) == b.start_date = d /\ b.end_date = d

C4_SameDayRule ==
  /\ \A sp \in WideSpans :
        (sp[1] = sp[2]
           /\ \A i \in Booked(bookings, 1) :
                 (bookings[i].start_date <= sp[1] /\ bookings[i].end_date >= sp[1])
                 => SameDayOn(bookings[i], sp[1]))
        => (has_conflict(bookings, 1, sp[1], sp[2], sp[3], sp[4])
            <=> \E i \in Booked(bookings, 1) :
                  /\ SameDayOn(bookings[i], sp[1])
                  /\ bookings[i].start_time < sp[4]
                  /\ bookings[i].end_time > sp[3])
  /\ \A d \in WideDates :
        (/\ Booked(bookings, 1) # {}
         /\ \A i \in Booked(bookings, 1) :
               SpanOf(bookings[i]) = <<d, d, Hour(10), Hour(14)>>)
        => /\ Answer(1, <<d, d, Hour(14), Hour(16)>>) = OK
           /\ Answer(1, <<d, d, Hour(13), Hour(15)>>) = Conflict

\* 10:00-14:00 and then 14:00-16:00 were both booked on day 1, and
\* 13:00-15:00 is being refused
C4_Witness ==
  /\ Len(bookings) = 2
  /\ bookings[1].status = "booked" /\ SpanOf(bookings[1]) = <<1, 1, Hour(10), Hour(14)>>
  /\ bookings[2].status = "booked" /\ SpanOf(bookings[2]) = <<1, 1, Hour(14), Hour(16)>>
  /\ has_conflict(bookings, 1, 1, 1, Hour(13), Hour(15))

\* ---------------------------------------------------------------------
\* C5: against a single booked multi-day booking b, a valid same-day
\* candidate on b's start day conflicts iff b.start_time < candidate.end_time,
\* and one on b's end day conflicts iff b.end_time > candidate.start_time.
\* ---------------------------------------------------------------------
C5_BoundaryDayRule ==
  \A i \in 1..Len(bookings), sp \in WideSpans :
    (/\ Booked(bookings, 1) = {i}
     /\ bookings[i].start_date # bookings[i].end_date
     /\ sp[1] = sp[2] /\ sp[3] < sp[4])
    => /\ sp[1] = bookings[i].start_date
            => (has_conflict(bookings, 1, sp[1], sp[2], sp[3], sp[4])
                <=> bookings[i].start_time < sp[4])
       /\ sp[1] = bookings[i].end_date
            => (has_conflict(bookings, 1, sp[1], sp[2], sp[3], sp[4])
                <=> bookings[i].end_time > sp[3])

\* ---------------------------------------------------------------------
\* C2: whatever the interleaving of the conflict checks and the commits of
\* concurrent requests, no two bookings with status booked on the same hall
\* have overlapping spans.
\* ---------------------------------------------------------------------
C2_ConcurrentExclusive ==
  \A i \in 1..Len(bookings), j \in 1..Len(bookings) :
    (/\ i < j
     /\ bookings[i].hall_id = bookings[j].hall_id
     /\ bookings[i].status = "booked" /\ bookings[j].status = "booked")
    => ~SpansOverlap(SpanOf(bookings[i]), SpanOf(bookings[j]))

\* ---------------------------------------------------------------------
\* C6: a cancelled booking b takes no part in has_conflict: for every
\* request on b's hall the answer of has_conflict is the one it gives on the
\* table without b, and the request for b's own span is accepted when
\* has_conflict finds no other row against it.
\* ---------------------------------------------------------------------
Without(db, i) == SubSeq(db, 1, i - 1) \o SubSeq(db, i + 1, Len(db))

C6_CancelledNeverBlocks ==
  \A i \in 1..Len(bookings) :
    bookings[i].status = "cancelled" =>
      LET h == bookings[i].hall_id
          own == SpanOf(bookings[i])
          rest == Without(bookings, i)
      IN  /\ \A sp \in SysSpans :
                has_conflict(bookings, h, sp[1], sp[2], sp[3], sp[4])
                <=> has_conflict(rest, h, sp[1], sp[2], sp[3], sp[4])
          /\ (OtherwiseValid(h, own)
                 /\ ~has_conflict(rest, h, own[1], own[2], own[3], own[4]))
              => Answer(h, own) = OK

\* booking 1 was cancelled and booking 2 was then made on its hall and span
C6_Witness ==
  /\ Len(bookings) = 2
  /\ bookings[1].status = "cancelled"
  /\ bookings[2].status = "booked"
  /\ bookings[2].hall_id = bookings[1].hall_id
  /\ SpanOf(bookings[2]) = SpanOf(bookings[1])

\* ---------------------------------------------------------------------
\* C7: the stored price of a same-day booking is hours x price_per_hour,
\* times weekend_price_multiplier iff its date is a Saturday or a Sunday,
\* plus security_deposit once, the sum rounded to 2 decimals; under the
\* card 100 / 1.5 / 50 the span 10:00-14:00 costs 450 on a weekday and 650
\* on a Saturday.
\* ---------------------------------------------------------------------
SameDayAmount(card, d, start_time, end_time) ==
  LET charge == ((end_time - start_time) * card.price_per_hour) \div 60
  IN  (IF weekday(d) \in {5, 6}
       THEN (charge * card.weekend_price_multiplier) \div 10
       ELSE charge) + card.security_deposit

IsExample(b, wd) ==
  /\ halls[b.hall_id] = HallRow(1, StdCard, FALSE)
  /\ b.start_date = b.end_date
  /\ weekday(b.start_date) = wd
  /\ b.start_time = Hour(10)
  /\ b.end_time = Hour(14)

C7_SameDayPrice ==
  \A i \in 1..Len(bookings) :
    LET b == bookings[i]
    IN  /\ b.start_date = b.end_date
          => /\ b.end_time > b.start_time
             /\ b.total_price = Round2(SameDayAmount(halls[b.hall_id], b.start_date,
                                                     b.start_time, b.end_time))
        /\ IsExample(b, 0) => b.total_price = 450000
        /\ IsExample(b, 5) => b.total_price = 650000

\* the same statement without the rounding
C7_Unrounded ==
  \A i \in 1..Len(bookings) :
    LET b == bookings[i]
    IN  b.start_date = b.end_date
          => b.total_price = SameDayAmount(halls[b.hall_id], b.start_date,
                                           b.start_time, b.end_time)

\* a quarter of an hour on a Saturday at 101 an hour: 37.875 before rounding
C7_Witness ==
  \E i \in 1..Len(bookings) :
    /\ halls[bookings[i].hall_id] = HallRow(1, TieCard, FALSE)
    /\ bookings[i].start_date = bookings[i].end_date
    /\ weekday(bookings[i].start_date) = 5
    /\ bookings[i].end_time - bookings[i].start_time = 15
    /\ bookings[i].total_price = 37880

\* ---------------------------------------------------------------------
\* C8: the stored price of a multi-day booking is the sum of its days'
\* charges, (24 - start_time) x price_per_hour on the first day,
\* price_per_day on each day between, end_time x price_per_hour on the last
\* day, each day's charge times weekend_price_multiplier iff that day is a
\* Saturday or a Sunday, plus security_deposit once (rounded to 2 decimals).
\* ---------------------------------------------------------------------
DayCharge(card, b, d) ==
  LET base == IF d = b.start_date THEN ((1440 - b.start_time) * card.price_per_hour) \div 60
              ELSE IF d = b.end_date THEN (b.end_time * card.price_per_hour) \div 60
              ELSE card.price_per_day
  IN  IF weekday(d) \in {5, 6}
      THEN (base * card.weekend_price_multiplier) \div 10
      ELSE base

RECURSIVE SumOfDays(_, _, _)
SumOfDays(card, b, d) ==
  IF d > b.end_date THEN 0
  ELSE DayCharge(card, b, d) + SumOfDays(card, b, d + 1)

C8_PerDayWeekend ==
  \A i \in 1..Len(bookings) :
    LET b == bookings[i]
        card == halls[b.hall_id]
    IN  b.start_date < b.end_date
          => b.total_price = Round2(SumOfDays(card, b, b.start_date) + card.security_deposit)

\* ---------------------------------------------------------------------
\* C9: with the rate card, the start date and the start time of a stored
\* booking kept, a span that ends later (a later end_time on the same
\* end_date, or a later end_date with the same end_time) is never priced
\* below the booking.
\* ---------------------------------------------------------------------
C9_Monotone ==
  \A i \in 1..Len(bookings) :
    LET b == bookings[i]
        card == halls[b.hall_id]
    IN  (card.weekend_price_multiplier >= 10)
          => \A end_date \in PriceDates, end_time \in PriceTimes :
               (\/ end_date = b.end_date /\ end_time >= b.end_time
                \/ end_date >= b.end_date /\ end_time = b.end_time)
               => LET later == calculate_price(card, b.start_date, end_date,
                                               b.start_time, end_time)
                  IN  ~later.raised /\ later.value >= b.total_price

\* ---------------------------------------------------------------------
\* C10: no step removes a booking or changes the total_price of a booking
\* that exists: create_booking sets the price of the row it adds, and
\* edit_hall, cancel_booking, verify_payment and delete_hall leave the
\* total_price of every booking as it was.
\* ---------------------------------------------------------------------
C10_PriceSetOnce ==
  [][/\ Len(bookings') >= Len(bookings)
     /\ \A i \in 1..Len(bookings) :
          bookings'[i].total_price = bookings[i].total_price]_vars

\* a cancelled booking of a hall that was edited and then deleted still has
\* the price of its creation, which is not its price under the hall's card
C10_Witness ==
  \E i \in 1..Len(bookings) :
    LET b == bookings[i]
    IN  /\ b.status = "cancelled"
        /\ halls[b.hall_id].deleted
        /\ halls[b.hall_id] = HallRow(1, AltCard, TRUE)
        /\ b.total_price = calculate_price(StdCard, b.start_date, b.end_date,
                                           b.start_time, b.end_time).value
        /\ b.total_price # calculate_price(halls[b.hall_id], b.start_date, b.end_date,
                                           b.start_time, b.end_time).value

\* ---------------------------------------------------------------------
\* C11: for every slot that available_slots returns for a hall and a date, a
\* same-day request for that date from the slot's start to the slot's end is
\* not answered Conflict.
\* ---------------------------------------------------------------------
C11_SlotsAgree ==
  \A d \in WideDates :
    LET slots == available_slots(bookings, 1, d)
    IN  \A k \in 1..Len(slots) :
          Answer(1, <<d, d, to_min(slots[k].start), to_min(slots[k].end)>>) # Conflict

\* ---------------------------------------------------------------------
\* C12: a date that available_dates reports available for a hall has no
\* conflict for any same-day request on it (start_time < end_time): has_conflict
\* is false and create_booking does not answer Conflict.
\* ---------------------------------------------------------------------
C12_AvailableDateAccepts ==
  \A h \in HallIds, month \in Months :
    \A d \in month_start(month)..month_end(month) :
      isoformat(d) \in available_dates(bookings, h, month)
        => \A start_time \in CalTimes, end_time \in CalTimes :
             start_time < end_time
               => /\ ~has_conflict(bookings, h, d, d, start_time, end_time)
                  /\ Answer(h, <<d, d, start_time, end_time>>) # Conflict

\* hall 1 is booked from 2025-06-01 to 2025-06-03, 2025-05-31 was still
\* reported available for it and has then been booked
C12_Witness ==
  /\ Len(bookings) = 2
  /\ bookings[1].hall_id = 1 /\ bookings[1].status = "booked"
  /\ SpanOf(bookings[1]) = <<2, 4, Hour(10), Hour(8)>>
  /\ bookings[2].hall_id = 1 /\ bookings[2].status = "booked"
  /\ SpanOf(bookings[2]) = <<1, 1, Hour(10), Hour(14)>>
  /\ <<2025, 6, 4>> \in available_dates(bookings, 1, "2025-06")
  /\ <<2025, 6, 2>> \notin available_dates(bookings, 1, "2025-06")

\* ---------------------------------------------------------------------
\* C13: available_dates returns exactly the dates of the month that lie in
\* the [start_date, end_date] range of no booked booking of the hall;
\* cancelled bookings do not count; a booked booking from 2025-06-01 to
\* 2025-06-03 08:00 makes 2025-06-02 unavailable.
\* ---------------------------------------------------------------------
Touched(h, d) ==
  \E i \in 1..Len(bookings) :
    /\ bookings[i].hall_id = h
    /\ bookings[i].status = "booked"
    /\ bookings[i].start_date <= d
    /\ d <= bookings[i].end_date

C13_AvailableDatesExact ==
  \A h \in HallIds, month \in Months :
    /\ available_dates(bookings, h, month)
         = {isoformat(d) : d \in {e \in month_start(month)..month_end(month) :
                                    ~Touched(h, e)}}
    /\ (\E i \in Booked(bookings, h) : SpanOf(bookings[i]) = <<2, 4, Hour(10), Hour(8)>>)
         => <<2025, 6, 2>> \notin available_dates(bookings, h, "2025-06")

\* the booking of 2025-06-02 was cancelled and 2025-06-01 to 2025-06-03 08:00
\* then booked on the same hall: June 2 is unavailable, June 4 available
C13_Witness ==
  /\ Len(bookings) = 2
  /\ bookings[1].status = "cancelled"
  /\ SpanOf(bookings[1]) = <<3, 3, Hour(10), Hour(14)>>
  /\ bookings[2].status = "booked"
  /\ bookings[2].hall_id = bookings[1].hall_id
  /\ SpanOf(bookings[2]) = <<2, 4, Hour(10), Hour(8)>>
  /\ <<2025, 6, 2>> \notin available_dates(bookings, bookings[2].hall_id, "2025-06")
  /\ <<2025, 6, 4>> \in available_dates(bookings, bookings[2].hall_id, "2025-06")
  /\ <<2025, 5, 31>> \in available_dates(bookings, bookings[2].hall_id, "2025-05")

\* ---------------------------------------------------------------------
\* C14: multi_hall_calendar answers for every month with exactly one entry
\* per non-deleted hall, and a date of the month is in a hall's booked_dates
\* iff available_dates does not report it for that hall.
\* ---------------------------------------------------------------------
C14_CalendarMatches ==
  \A month \in Months :
    LET r == multi_hall_calendar(halls, bookings, month)
        live == {h \in HallIds : ~halls[h].deleted}
    IN  /\ ~r.raised
        /\ DOMAIN r.halls = live
        /\ \A h \in live, d \in month_start(month)..month_end(month) :
             isoformat(d) \in r.halls[h]
               <=> isoformat(d) \notin available_dates(bookings, h, month)

\* ---------------------------------------------------------------------
\* C15: in every step, a booking whose payment_status becomes success had
\* payment_status pending before the step: no step takes a booking from
\* failed to success.
\* ---------------------------------------------------------------------
C15_SuccessOnlyFromPending ==
  [][\A i \in 1..Len(bookings) :
       (bookings'[i].payment_status = "success"
          /\ bookings[i].payment_status # "success")
       => bookings[i].payment_status = "pending"]_vars

\* ---------------------------------------------------------------------
\* C16: on a booking whose payment_status is success, verify_payment with
\* any payment id, order id and signature answers that the payment is
\* verified, whether or not the signature is valid, and leaves the table as
\* it is.
\* ---------------------------------------------------------------------
C16_VerifyIdempotent ==
  \A i \in 1..Len(bookings) :
    bookings[i].payment_status = "success"
      => \A pid \in PayIds, oid \in PayOrders, sig \in PaySignatures :
           /\ verify_check(bookings, i, pid, oid, sig) = AlreadyVerified
           /\ verify_update(bookings, i, pid, oid, sig) = bookings

\* a booking verified with pay_A under order_1: a callback with another
\* payment id or a forged signature is answered as already verified
C16_Witness ==
  \E i \in 1..Len(bookings) :
    /\ bookings[i].payment_status = "success"
    /\ bookings[i].razorpay_payment_id = PayA
    /\ bookings[i].razorpay_signature = Sign(OrderId(1), PayA)
    /\ verify_check(bookings, i, PayB, OrderId(2), "forged") = AlreadyVerified
    /\ verify_check_always(bookings, i, PayB, OrderId(2), "forged") = InvalidSignature

\* ---------------------------------------------------------------------
\* C17: on a booking whose payment_status is not success, verify_payment
\* with a signature that does not verify answers InvalidSignature and
\* changes the booking in payment_status alone, which becomes failed: the
\* payment id and the signature of the call are not stored.
\* ---------------------------------------------------------------------
C17_FailurePersisted ==
  \A i \in 1..Len(bookings) :
    bookings[i].payment_status # "success"
      => \A pid \in PayIds, oid \in PayOrders, sig \in PaySignatures :
           ~SignatureValid(oid, pid, sig)
             => /\ verify_check(bookings, i, pid, oid, sig) = InvalidSignature
                /\ verify_update(bookings, i, pid, oid, sig)
                     = [bookings EXCEPT ![i].payment_status = "failed"]
                /\ verify_update(bookings, i, pid, oid, sig)[i].razorpay_payment_id = NONE
                /\ verify_update(bookings, i, pid, oid, sig)[i].razorpay_signature = NONE

\* an online booking with its order, failed by a callback, nothing stored
C17_Witness ==
  \E i \in 1..Len(bookings) :
    /\ bookings[i].payment_mode = "online"
    /\ bookings[i].razorpay_order_id = OrderId(i)
    /\ bookings[i].payment_status = "failed"
    /\ bookings[i].razorpay_payment_id = NONE
    /\ bookings[i].razorpay_signature = NONE

\* ---------------------------------------------------------------------
\* C18: cancel_booking accepts a call on a booking only from the user who
\* created it: every other principal, admins included, gets an error.
\* ---------------------------------------------------------------------
C18_CancelRequiresOwnership ==
  \A p \in Principals, booking_id \in 1..Len(bookings) :
    cancel_check(bookings, p, booking_id) = OK
      => p = User(bookings[booking_id].user_id)

\* ---------------------------------------------------------------------
\* C19: a booking whose status is cancelled has status cancelled after every
\* step, whichever of create_booking, cancel_booking, verify_payment,
\* edit_hall and delete_hall the step is.
\* ---------------------------------------------------------------------
C19_CancelledTerminal ==
  [][\A i \in 1..Len(bookings) :
       bookings[i].status = "cancelled" => bookings'[i].status = "cancelled"]_vars

\* a cancelled booking whose payment was then verified, of a hall since
\* deleted, next to a later booking: it is still cancelled
C19_Witness ==
  /\ Len(bookings) = 2
  /\ bookings[1].status = "cancelled"
  /\ bookings[1].payment_status = "success"
  /\ halls[bookings[1].hall_id].deleted
  /\ bookings[2].status = "booked"

\* ---------------------------------------------------------------------
\* C20: for a user's request, create_booking adds a row (one row, status
\* booked, payment_status pending, the request's hall and span) only if the
\* hall is live, start_date >= today, end_date >= start_date, start_time is
\* after the current time when start_date is today, end_time > start_time
\* when same-day, and has_conflict is false; when one of these fails the
\* table is unchanged and the error is that of a failed condition.
\* ---------------------------------------------------------------------
CheckedSpans ==
  LifeSpans \cup {<<0 - 1, 1, Hour(10), Hour(14)>>, <<1, 0, Hour(10), Hour(14)>>,
                  <<0, 0, Hour(8), Hour(10)>>, <<0, 0, Hour(10), Hour(14)>>,
                  <<1, 1, Hour(14), Hour(16)>>, <<1, 1, Hour(14), Hour(14)>>}

ErrorClass(detail) ==
  IF detail = HallNotFound THEN "NotFound"
  ELSE IF detail \in {PastDate, EndBeforeStart, EndInPast, StartNotFuture}
       THEN "InvalidDateRange"
  ELSE IF detail \in {EndNotAfterStart, InvalidDuration} THEN "InvalidDuration"
  ELSE IF detail = Conflict THEN "Conflict"
  ELSE detail

FailedClasses(hall_id, sp) ==
  (IF LiveHall(halls, hall_id) THEN {} ELSE {"NotFound"})
  \cup (IF sp[1] >= today /\ sp[2] >= sp[1] /\ (sp[1] = today => sp[3] > Morning)
        THEN {} ELSE {"InvalidDateRange"})
  \cup (IF sp[1] = sp[2] => sp[4] > sp[3] THEN {} ELSE {"InvalidDuration"})
  \cup (IF has_conflict(bookings, hall_id, sp[1], sp[2], sp[3], sp[4])
        THEN {"Conflict"} ELSE {})

C20_CreateOnlyIfValid ==
  \A hall_id \in ReqHallIds, sp \in CheckedSpans, mode \in PaymentMode, rp_ok \in BOOLEAN :
    LET detail == create_check(halls, bookings, today, User(1), hall_id,
                               sp[1], sp[2], sp[3], sp[4], Morning)
        after == create_update(halls, bookings, today, User(1), hall_id,
                               sp[1], sp[2], sp[3], sp[4], mode, Morning, rp_ok)
        failed == FailedClasses(hall_id, sp)
    IN  /\ after # bookings
             => /\ failed = {}
                /\ Len(after) = Len(bookings) + 1
                /\ SubSeq(after, 1, Len(bookings)) = bookings
                /\ after[Len(after)].status = "booked"
                /\ after[Len(after)].payment_status = "pending"
                /\ after[Len(after)].hall_id = hall_id
                /\ SpanOf(after[Len(after)]) = sp
        /\ failed # {}
             => /\ after = bookings
                /\ ErrorClass(detail) \in failed

\* a booking was made on hall 1, which has since been deleted: the same
\* request for the next slot is now answered NotFound
C20_Witness ==
  /\ Len(bookings) = 1
  /\ bookings[1].status = "booked"
  /\ bookings[1].payment_status = "pending"
  /\ SpanOf(bookings[1]) = <<1, 1, Hour(10), Hour(14)>>
  /\ halls[1].deleted
  /\ Answer(1, <<1, 1, Hour(14), Hour(16)>>) = HallNotFound

\* ---------------------------------------------------------------------
\* C21: for a deleted hall h, create_booking answers NotFound and adds no
\* booking, filter_by_availability and multi_hall_calendar do not list h,
\* and available_dates and available_slots return no availability for h.
\* ---------------------------------------------------------------------
CalDates == 1..4

C21_DeletedHallExcluded ==
  \A h \in HallIds :
    halls[h].deleted
      => /\ \A sp \in CalSpans :
              /\ Answer(h, sp) = HallNotFound
              /\ create_update(halls, bookings, today, User(1), h,
                               sp[1], sp[2], sp[3], sp[4], "venue", Morning, TRUE) = bookings
         /\ \A d \in CalDates : h \notin filter_by_availability(halls, bookings, d)
         /\ \A month \in Months :
              LET r == multi_hall_calendar(halls, bookings, month)
              IN  ~r.raised => h \notin DOMAIN r.halls
         /\ \A month \in Months : available_dates(bookings, h, month) = {}
         /\ \A d \in CalDates : available_slots(bookings, h, d) = <<>>

\* ---------------------------------------------------------------------
\* C22: a step of create_booking for an online request that does not answer
\* with success, order creation included, leaves the table as it was; and
\* after every step each stored online booking has its razorpay_order_id.
\* ---------------------------------------------------------------------
C22_SingleTransaction ==
  [][/\ \A sp \in PaySpans, rp_ok \in BOOLEAN :
          LET detail == create_check(halls, bookings, today, User(1), 1,
                                     sp[1], sp[2], sp[3], sp[4], Morning)
              after == create_update(halls, bookings, today, User(1), 1,
                                     sp[1], sp[2], sp[3], sp[4], "online", Morning, rp_ok)
          IN  (bookings' = after /\ create_response(detail, "online", rp_ok) # OK)
                => bookings' = bookings
     /\ \A i \in 1..Len(bookings') :
          bookings'[i].payment_mode = "online" => bookings'[i].razorpay_order_id # NONE]_vars

\* ---------------------------------------------------------------------
\* C23: cancel_booking by the booking's user succeeds whatever the
\* payment_status is, and the table after it differs from the table before
\* in the status of that booking alone, which is cancelled.
\* ---------------------------------------------------------------------
C23_CancelOnlyStatus ==
  \A i \in 1..Len(bookings) :
    LET owner == User(bookings[i].user_id)
    IN  /\ cancel_check(bookings, owner, i) = OK
        /\ cancel_update(bookings, owner, i) = [bookings EXCEPT ![i].status = "cancelled"]

\* a verified online booking and a failed one, both cancelled since: each
\* kept its payment_status and gateway fields, its price and its span
C23_Witness ==
  /\ Len(bookings) = 2
  /\ bookings[1].status = "cancelled"
  /\ bookings[1].payment_status = "success"
  /\ bookings[1].razorpay_order_id = OrderId(1)
  /\ bookings[1].razorpay_payment_id = PayA
  /\ bookings[1].razorpay_signature = Sign(OrderId(1), PayA)
  /\ bookings[1].total_price
       = calculate_price(StdCard, bookings[1].start_date, bookings[1].end_date,
                         bookings[1].start_time, bookings[1].end_time).value
  /\ bookings[2].status = "cancelled"
  /\ bookings[2].payment_status = "failed"

\* ---------------------------------------------------------------------
\* C24: the slots of available_slots for a hall and a date are in order of
\* start and disjoint, each with start < end; none meets the blocked window
\* of a booked booking on the date; every moment of 00:00-23:59 is in a slot
\* or in a blocked window; the list is empty when one booking blocks the
\* whole day, and is the one slot 00:00-23:59 when no booked booking touches
\* the date.
\* ---------------------------------------------------------------------
SlotDates == 0..2

\* the blocked window of booking b on date d, in minutes
BlockLo(b, d) == IF b.start_date = d THEN b.start_time ELSE 0
BlockHi(b, d) == IF b.end_date = d THEN b.end_time ELSE 1439

OnDate(d) ==
  {i \in Booked(bookings, 1) : bookings[i].start_date <= d /\ d <= bookings[i].end_date}

\* a moment inside each stretch between two times that a booking can have
ProbeMinutes == {t + e : t \in SlotTimes \ {1439}, e \in {0, 30}}

C24_SlotsPartitionDay ==
  \A d \in SlotDates :
    LET slots == available_slots(bookings, 1, d)
        lo(k) == to_min(slots[k].start)
        hi(k) == to_min(slots[k].end)
    IN  /\ \A k \in 1..Len(slots) : lo(k) < hi(k)
        /\ \A k \in 1..(Len(slots) - 1) : hi(k) <= lo(k + 1)
        /\ \A k \in 1..Len(slots), i \in OnDate(d) :
             hi(k) <= BlockLo(bookings[i], d) \/ lo(k) >= BlockHi(bookings[i], d)
        /\ \A m \in ProbeMinutes :
             \/ \E k \in 1..Len(slots) : lo(k) <= m /\ m < hi(k)
             \/ \E i \in OnDate(d) :
                  BlockLo(bookings[i], d) <= m /\ m < BlockHi(bookings[i], d)
        /\ (\E i \in OnDate(d) :
              BlockLo(bookings[i], d) = 0 /\ BlockHi(bookings[i], d) = 1439)
             => slots = <<>>
        /\ OnDate(d) = {} => slots = <<[start |-> 0, end |-> 2359]>>

\* two overlapping booked bookings of 2025-05-31, 00:00-16:00 and
\* 10:00-14:00: the one slot is 16:00-23:59
C24_Witness ==
  /\ Len(bookings) = 2
  /\ bookings[1].status = "booked" /\ SpanOf(bookings[1]) = <<1, 1, Hour(0), Hour(16)>>
  /\ bookings[2].status = "booked" /\ SpanOf(bookings[2]) = <<1, 1, Hour(10), Hour(14)>>
  /\ available_slots(bookings, 1, 1) = <<[start |-> 1600, end |-> 2359]>>

\* ---------------------------------------------------------------------
\* C25: occupancy depends only on status. A booking with status booked whose
\* payment_status is pending or failed blocks its span in has_conflict,
\* available_dates and available_slots; verify_payment leaves its status
\* booked, and the only call that releases it is cancel_booking by the user
\* who owns it.
\* ---------------------------------------------------------------------
StillBlocks(db, i) ==
  LET b == db[i]
  IN  /\ has_conflict(db, b.hall_id, b.start_date, b.end_date, b.start_time, b.end_time)
      /\ \A month \in Months :
           isoformat(b.start_date) \notin available_dates(db, b.hall_id, month)
      /\ LET slots == available_slots(db, b.hall_id, b.start_date)
         IN  \A k \in 1..Len(slots) :
               \/ to_min(slots[k].end) <= BlockLo(b, b.start_date)
               \/ to_min(slots[k].start) >= BlockHi(b, b.start_date)

UnpaidBooked(i) ==
  /\ bookings[i].status = "booked"
  /\ bookings[i].payment_status \in {"pending", "failed"}

KeptByVerify(i) ==
  \A pid \in PayIds, oid \in PayOrders, sig \in PaySignatures :
    LET after == verify_update(bookings, i, pid, oid, sig)
    IN  after[i].payment_status \in {"pending", "failed"} => StillBlocks(after, i)

C25_OccupancyByStatusOnly ==
  \A i \in 1..Len(bookings) :
    UnpaidBooked(i) =>
      /\ StillBlocks(bookings, i)
      /\ KeptByVerify(i)
      /\ \A p \in Principals :
           cancel_update(bookings, p, i)[i].status # "booked"
             => p = User(bookings[i].user_id)

\* ---------------------------------------------------------------------
\* C26: a principal with role admin never changes a booking through
\* cancel_booking: for every admin and every booking, also when the admin's
\* id equals the booking's user_id, the call returns an error and the
\* bookings table is as before.
\* ---------------------------------------------------------------------
C26_AdminNeverCancels ==
  \A a \in AdminIds, booking_id \in 1..Len(bookings) :
    /\ cancel_check(bookings, Admin(a), booking_id) # OK
    /\ cancel_update(bookings, Admin(a), booking_id) = bookings

\* ---------------------------------------------------------------------
\* C27: verify_payment sets a booking's payment_status to success only if
\* the booking has payment_mode online and the razorpay_order_id of the call
\* is the razorpay_order_id stored on the booking.
\* ---------------------------------------------------------------------
C27_OwnOrderOnly ==
  \A i \in 1..Len(bookings), pid \in PayIds, oid \in PayOrders, sig \in PaySignatures :
    LET after == verify_update(bookings, i, pid, oid, sig)
    IN  (bookings[i].payment_status # "success" /\ after[i].payment_status = "success")
          => /\ bookings[i].payment_mode = "online"
             /\ oid = bookings[i].razorpay_order_id

\* ---------------------------------------------------------------------
\* C28: multi_hall_calendar returns a result in every reachable state, for
\* both months, and the result lists every hall that is not deleted.
\* ---------------------------------------------------------------------
C28_CalendarAlwaysReturns ==
  \A month \in Months :
    LET r == multi_hall_calendar(halls, bookings, month)
    IN  ~r.raised /\ \A h \in HallIds : ~halls[h].deleted => h \in DOMAIN r.halls

\* ---------------------------------------------------------------------
\* C29: payment success is absorbing. Once a booking's payment_status is
\* success, no step (verify_payment with a valid or an invalid signature,
\* cancel_booking, edit_hall, delete_hall, create_booking) changes its
\* payment_status, razorpay_payment_id or razorpay_signature.
\* ---------------------------------------------------------------------
C29_SuccessAbsorbing ==
  [][\A i \in 1..Len(bookings) :
       bookings[i].payment_status = "success"
         => /\ i <= Len(bookings')
            /\ bookings'[i].payment_status = "success"
            /\ bookings'[i].razorpay_payment_id = bookings[i].razorpay_payment_id
            /\ bookings'[i].razorpay_signature = bookings[i].razorpay_signature]_vars

\* a paid booking that was cancelled, of a hall that was edited and then
\* deleted, with the ids of its own payment still on it
C29_Witness ==
  \E i \in 1..Len(bookings) :
    /\ bookings[i].payment_status = "success"
    /\ bookings[i].status = "cancelled"
    /\ bookings[i].razorpay_payment_id = PayA
    /\ bookings[i].razorpay_signature = Sign(OrderId(1), PayA)
    /\ halls[bookings[i].hall_id].deleted
    /\ halls[bookings[i].hall_id].price_per_hour = AltCard.price_per_hour

\* ---------------------------------------------------------------------
\* C30: a hall is modified or soft-deleted only by its owning admin.
\* edit_hall and delete_hall by an admin whose id is not the admin_id of the
\* (existing) hall answer "You do not own this hall" and leave the halls
\* table as it was; on a deleted hall they answer "Hall not found" and leave
\* it as it was; no call of either changes admin_id or takes deleted back
\* to false.
\* ---------------------------------------------------------------------
C30_OwnerOnly ==
  \A p \in Principals, hall_id \in HallIds, data \in HallsCards :
    LET edited == edit_update(halls, p, hall_id, data)
        removed == delete_update(halls, p, hall_id)
        detail == hall_check(halls, p, hall_id)
    IN  /\ (p.role = "admin" /\ ~halls[hall_id].deleted /\ p.id # halls[hall_id].admin_id)
             => detail = NotOwner /\ edited = halls /\ removed = halls
        /\ (p.role = "admin" /\ halls[hall_id].deleted)
             => detail = HallNotFound /\ edited = halls /\ removed = halls
        /\ p # Admin(halls[hall_id].admin_id) => edited = halls /\ removed = halls
        /\ \A h \in HallIds :
             /\ edited[h].admin_id = halls[h].admin_id
             /\ removed[h].admin_id = halls[h].admin_id
             /\ halls[h].deleted => edited[h].deleted /\ removed[h].deleted

\* hall 1 deleted by admin 1 and hall 2 edited by admin 2: admin 1 is
\* refused on hall 2 and everybody is refused on hall 1
C30_Witness ==
  /\ halls[1].deleted
  /\ ~halls[2].deleted
  /\ halls[2].price_per_hour = AltCard.price_per_hour
  /\ hall_check(halls, Admin(1), 2) = NotOwner
  /\ hall_check(halls, Admin(1), 1) = HallNotFound
  /\ Len(bookings) > 0

====
